---- MODULE Spec2Model ----
(***************************************************************************)
(* PRAM search step-count model (paraCompEx1.py).                          *)
(*                                                                         *)
(* A Python str is a sequence of one-character strings; index k of the     *)
(* program is position k+1 here, and every index the program returns is    *)
(* kept 0-based (-1 = not found).  A call either returns or raises; a      *)
(* result is a record with a status field.                                 *)
(***************************************************************************)
EXTENDS Integers, Sequences, FiniteSets, TLC

(* ---- bounds of the explored inputs ---- *)
MaxLen == 3          \* longest sequence passed to the search functions
MaxP == 4            \* largest processor count
MaxNegP == 1         \* processor counts go down to -MaxNegP
MaxN == 4            \* largest n passed to speedups

\* stands for string.ascii_letters + string.digits (62 symbols in the program)
Base == {"a", "b", "c"}
\* stands for chr(0x2500 + i), i = 0, 1, ...
ExtraChars == <<"x0", "x1", "x2">>
\* the symbol speedups searches for when target_present is false
Hash == "#"

Chars == Base \cup {Hash}
Rules == {"priority", "arbitrary"}
Models == {"Sequential", "EREW", "CREW", "CRCW"}
PRAMModels == {"EREW", "CREW", "CRCW"}

SeqsUpTo(S, n) == UNION {[1..k -> S] : k \in 0..n}
Sequences3 == SeqsUpTo(Base, MaxLen)
\* targets: the empty string, every single symbol, every two-symbol string
Targets == {<< >>} \cup {<<c>> : c \in Chars} \cup {<<c, d>> : c \in Base, d \in Base}
Procs == (0 - MaxNegP)..MaxP

(* ---- results ---- *)
NotCalled == [status |-> "none"]
Returned(i, st) == [status |-> "ok", index |-> i, steps |-> st]
Raised(e) == [status |-> "raised", exc |-> e]

(* ---- arithmetic of the math module ---- *)
\* faulty variant: integer division n // p in place of ceil(n / p)
floor_div(n, p) ==
    IF p > 0 THEN n \div p
    ELSE 0 - ((n + (0 - p) - 1) \div (0 - p))

\* ceil(n / p) for n >= 0 and p # 0
ceil_div(n, p) ==
    IF p > 0 THEN (n + p - 1) \div p
    ELSE 0 - (n \div (0 - p))

RECURSIVE pow2(_)
pow2(k) == IF k = 0 THEN 1 ELSE 2 * pow2(k - 1)

RECURSIVE ceil_log2_from(_, _)
ceil_log2_from(p, k) == IF pow2(k) >= p THEN k ELSE ceil_log2_from(p, k + 1)
\* ceil(log2(p)) for p >= 1
ceil_log2(p) == ceil_log2_from(p, 0)

reduction_steps(p) == IF p > 1 THEN ceil_log2(p) ELSE 0

(* ---- str.find ---- *)
MatchesAt(s, t, i) ==
    /\ i + Len(t) <= Len(s)
    /\ \A j \in 1..Len(t) : s[i + j] = t[j]

RECURSIVE find_from(_, _, _)
find_from(s, t, i) ==
    IF i + Len(t) > Len(s) THEN -1
    ELSE IF MatchesAt(s, t, i) THEN i
    ELSE find_from(s, t, i + 1)
\* faulty variant: the scan starts at index 1
find_skipping_first(s, t) == find_from(s, t, 1)

RECURSIVE rfind_from(_, _, _)
rfind_from(s, t, i) ==
    IF i < 0 THEN -1
    ELSE IF MatchesAt(s, t, i) THEN i
    ELSE rfind_from(s, t, i - 1)
\* faulty variant: s.rfind(target), the highest index
rfind(s, t) == rfind_from(s, t, Len(s))

\* s.find(target): lowest 0-based index at which target occurs as a substring
find(s, t) == find_from(s, t, 0)

(* ---- seq_search ---- *)
RECURSIVE seq_search_loop(_, _, _, _)
seq_search_loop(s, target, i, steps) ==
    IF i >= Len(s) THEN Returned(-1, steps)
    ELSE IF <<s[i + 1]>> = target THEN Returned(i, steps + 1)
    ELSE seq_search_loop(s, target, i + 1, steps + 1)

\* faulty variant: the counter starts at 1
seq_search_counting_from_one(s, target) == seq_search_loop(s, target, 0, 1)

seq_search(s, target) == seq_search_loop(s, target, 0, 0)

(* ---- PRAM variants ---- *)
pram_erew_search(s, target, p) ==
    IF p = 0 THEN Raised("ZeroDivisionError")
    ELSE Returned(find(s, target), ceil_div(Len(s), p) + reduction_steps(p))

\* faulty variant: CREW charged no reduction phase
pram_crew_without_reduction(s, target, p) ==
    IF p = 0 THEN Raised("ZeroDivisionError")
    ELSE Returned(find(s, target), ceil_div(Len(s), p))

pram_crew_search(s, target, p) ==
    IF p = 0 THEN Raised("ZeroDivisionError")
    ELSE Returned(find(s, target), ceil_div(Len(s), p) + reduction_steps(p))

\* faulty variant: CRCW charged the reduction phase of EREW
pram_crcw_with_reduction(s, target, p, rule) ==
    IF p = 0 THEN Raised("ZeroDivisionError")
    ELSE Returned(find(s, target), ceil_div(Len(s), p) + reduction_steps(p))

pram_crcw_search(s, target, p, rule) ==
    IF p = 0 THEN Raised("ZeroDivisionError")
    ELSE Returned(find(s, target), ceil_div(Len(s), p))

(* ---- generate_unique_string ---- *)
Shuffles(S) == {f \in [1..Cardinality(S) -> S] : \A i, j \in DOMAIN f : f[i] = f[j] => i = j}

\* the strings generate_unique_string(n) can return, n >= 0
generate_unique_string(n) ==
    IF n <= Cardinality(Base)
    THEN {SubSeq(b, 1, n) : b \in Shuffles(Base)}
    ELSE {b \o SubSeq(ExtraChars, 1, n - Cardinality(Base)) : b \in Shuffles(Base)}

(* ---- speedups ---- *)
RECURSIVE gcd(_, _)
gcd(a, b) == IF b = 0 THEN a ELSE gcd(b, a % b)

\* the float a / b (a >= 0, b > 0), kept as the fraction in lowest terms
Ratio(a, b) == [kind |-> "ratio", num |-> a \div gcd(a, b), den |-> b \div gcd(a, b)]
Inf == [kind |-> "inf", num |-> 0, den |-> 0]
\* the literal 1.0
One == [kind |-> "ratio", num |-> 1, den |-> 1]

\* faulty variant: the ratio inverted, ts / t_seq
spd_inverted(t_seq, ts) == IF ts > 0 /\ t_seq > 0 THEN Ratio(ts, t_seq) ELSE Inf

spd(t_seq, ts) == IF ts > 0 THEN Ratio(t_seq, ts) ELSE Inf

\* the asserted condition: idx_seq == idx_erew == idx_crew == idx_crcw or idx_seq == -1
consistent(idx_seq, idx_erew, idx_crew, idx_crcw) ==
    \/ (idx_seq = idx_erew /\ idx_erew = idx_crew /\ idx_crew = idx_crcw)
    \/ idx_seq = -1

\* the four calls of speedups in program order; a raise stops the later calls
speedups_calls(str, tgt, procs) ==
    LET r_erew == pram_erew_search(str, tgt, procs)
        r_crew == IF r_erew.status = "ok"
                  THEN pram_crew_search(str, tgt, procs) ELSE NotCalled
        r_crcw == IF r_crew.status = "ok"
                  THEN pram_crcw_search(str, tgt, procs, "priority") ELSE NotCalled
    IN  [m \in Models |->
            CASE m = "Sequential" -> seq_search(str, tgt)
              [] m = "EREW" -> r_erew
              [] m = "CREW" -> r_crew
              [] m = "CRCW" -> r_crcw]

\* what speedups returns, or raises, once its four calls gave r
speedups_result(r) ==
    IF \E m \in Models : r[m].status = "raised"
    THEN Raised(r[CHOOSE m \in Models : r[m].status = "raised"].exc)
    ELSE IF ~consistent(r["Sequential"].index, r["EREW"].index,
                        r["CREW"].index, r["CRCW"].index)
    THEN Raised("AssertionError")
    ELSE [status |-> "ok",
          dict |-> [m \in Models |->
                     [index |-> r[m].index,
                      speedup |-> IF m = "Sequential" THEN One
                                  ELSE spd(r["Sequential"].steps, r[m].steps),
                      steps |-> r[m].steps]]]

(***************************************************************************)
(* State: the arguments of the current round of calls, what each search    *)
(* function gave on them, what speedups gave, and the previous round kept  *)
(* by a driver that sweeps the processor count or the target.  The driver  *)
(* calls the four functions in the order speedups does.                    *)
(***************************************************************************)
VARIABLES s, target, p, rule, ret, out, prev

vars == <<s, target, p, rule, ret, out, prev>>

NoneCalled == [m \in Models |-> NotCalled]
NoPrev == [set |-> FALSE, p |-> 0, target |-> << >>, ret |-> NoneCalled]

AllCalled == \A m \in Models : ret[m].status # "none"

Init ==
    /\ s \in Sequences3
    /\ target \in Targets
    /\ p \in Procs
    /\ rule = "priority"
    /\ ret = NoneCalled
    /\ out = NotCalled
    /\ prev = NoPrev

CallSeqSearch ==
    /\ out.status = "none"
    /\ ret["Sequential"].status = "none"
    /\ ret' = [ret EXCEPT !["Sequential"] = seq_search(s, target)]
    /\ UNCHANGED <<s, target, p, rule, out, prev>>

CallErew ==
    /\ out.status = "none"
    /\ ret["Sequential"].status # "none"
    /\ ret["EREW"].status = "none"
    /\ ret' = [ret EXCEPT !["EREW"] = pram_erew_search(s, target, p)]
    /\ UNCHANGED <<s, target, p, rule, out, prev>>

CallCrew ==
    /\ out.status = "none"
    /\ ret["EREW"].status # "none"
    /\ ret["CREW"].status = "none"
    /\ ret' = [ret EXCEPT !["CREW"] = pram_crew_search(s, target, p)]
    /\ UNCHANGED <<s, target, p, rule, out, prev>>

CallCrcw(r) ==
    /\ out.status = "none"
    /\ ret["CREW"].status # "none"
    /\ ret["CRCW"].status = "none"
    /\ rule' = r
    /\ ret' = [ret EXCEPT !["CRCW"] = pram_crcw_search(s, target, p, r)]
    /\ UNCHANGED <<s, target, p, out, prev>>

\* the driver keeps the round's results and starts a round with more processors
ChangeProcessors(q) ==
    /\ out.status = "none"
    /\ AllCalled
    /\ ~prev.set
    /\ q > p
    /\ prev' = [set |-> TRUE, p |-> p, target |-> target, ret |-> ret]
    /\ p' = q
    /\ rule' = "priority"
    /\ ret' = NoneCalled
    /\ UNCHANGED <<s, target, out>>

\* the driver keeps the round's results and starts a round searching symbol c
ChangeTarget(c) ==
    /\ out.status = "none"
    /\ AllCalled
    /\ ~prev.set
    /\ <<c>> # target
    /\ prev' = [set |-> TRUE, p |-> p, target |-> target, ret |-> ret]
    /\ target' = <<c>>
    /\ rule' = "priority"
    /\ ret' = NoneCalled
    /\ UNCHANGED <<s, p, out>>

\* speedups(n, p, target_present), with the string and the position drawn.
\* It takes no sequence and no target: the driver calls it from the round
\* whose own sequence and target are empty.
Speedups(n, target_present) ==
    /\ out.status = "none"
    /\ ret = NoneCalled
    /\ ~prev.set
    /\ s = << >> /\ target = << >>
    /\ rule' = "priority"
    /\ UNCHANGED <<p, prev>>
    /\ \E str \in generate_unique_string(n) :
         /\ s' = str
         /\ IF target_present /\ n = 0
            THEN \* random.randrange(0) raises
                 /\ target' = << >>
                 /\ ret' = NoneCalled
                 /\ out' = Raised("ValueError")
            ELSE \E k \in 0..(IF target_present THEN n - 1 ELSE 0) :
                 LET tgt == IF target_present THEN <<str[k + 1]>> ELSE <<Hash>>
                     r == speedups_calls(str, tgt, p)
                 IN  /\ target' = tgt
                     /\ ret' = r
                     /\ out' = speedups_result(r)

Next ==
    \/ CallSeqSearch
    \/ CallErew
    \/ CallCrew
    \/ \E r \in Rules : CallCrcw(r)
    \/ \E q \in Procs : ChangeProcessors(q)
    \/ \E c \in Chars : ChangeTarget(c)
    \/ \E n \in 0..MaxN, tp \in BOOLEAN : Speedups(n, tp)

Spec == Init /\ [][Next]_vars

TypeOK ==
    /\ p \in Procs
    /\ rule \in Rules
    /\ \A m \in Models : ret[m].status \in {"none", "ok", "raised"}

(***************************************************************************)
(* Vocabulary of the properties, stated without the operators above.       *)
(***************************************************************************)
Called(m) == ret[m].status # "none"
Ok(m) == ret[m].status = "ok"
PairwiseDistinct(q) == \A i, j \in DOMAIN q : q[i] = q[j] => i = j
\* the symbol at 0-based position k is the target
OccursAt(k) == k + 1 \in DOMAIN s /\ target = <<s[k + 1]>>
IsFirstOccurrence(k) == OccursAt(k) /\ \A j \in 0..(k - 1) : ~OccursAt(j)
TargetAbsent == Len(target) = 1 /\ \A i \in DOMAIN s : s[i] # target[1]
\* c = ceil(n / q), q >= 1
IsCeilDiv(c, n, q) == c * q >= n /\ (c - 1) * q < n
\* l = ceil(log2(q)), q >= 1
IsCeilLog2(l, q) == l >= 0 /\ 2 ^ l >= q /\ (l = 0 \/ 2 ^ (l - 1) < q)
CeilLog2Of(q) == CHOOSE l \in 0..q : IsCeilLog2(l, q)

(***************************************************************************)
(* C1: for n >= 1, p >= 1 and a sequence of pairwise-distinct symbols, if  *)
(* the target is the symbol at position k, every one of the four search    *)
(* functions that was called returned index k.                             *)
(***************************************************************************)
Claim_C1 ==
    (p >= 1 /\ Len(s) >= 1 /\ PairwiseDistinct(s)) =>
        \A k \in 0..(Len(s) - 1) :
            OccursAt(k) =>
                \A m \in Models : Called(m) => (Ok(m) /\ ret[m].index = k)

Witness_C1 ==
    /\ Len(s) = 3 /\ PairwiseDistinct(s)
    /\ OccursAt(2)
    /\ p = 2
    /\ AllCalled

(***************************************************************************)
(* C2: seq_search returns (k, k + 1) when the first position holding the   *)
(* target is k, and (-1, n) when no position holds it (n the length of the *)
(* sequence, 0 for the empty one).                                         *)
(***************************************************************************)
Claim_C2 ==
    Called("Sequential") =>
        /\ Ok("Sequential")
        /\ \A k \in 0..(Len(s) - 1) :
             IsFirstOccurrence(k) =>
                 (ret["Sequential"].index = k /\ ret["Sequential"].steps = k + 1)
        /\ (\A k \in 0..(Len(s) - 1) : ~OccursAt(k)) =>
                 (ret["Sequential"].index = -1 /\ ret["Sequential"].steps = Len(s))

Witness_C2 ==
    /\ Called("Sequential")
    /\ Len(s) = 3
    /\ IsFirstOccurrence(1) /\ OccursAt(2)

(***************************************************************************)
(* C3: for n >= 1 and p >= 1, pram_crcw_search returns steps = ceil(n/p),  *)
(* pram_erew_search returns steps = ceil(n/p) + ceil(log2(p)), and the     *)
(* CRCW count is <= the EREW count, with equality exactly when p = 1.      *)
(***************************************************************************)
Claim_C3 ==
    (p >= 1 /\ Len(s) >= 1) =>
        /\ Called("CRCW") =>
             (Ok("CRCW") /\ IsCeilDiv(ret["CRCW"].steps, Len(s), p))
        /\ Called("EREW") =>
             /\ Ok("EREW")
             /\ \E c \in 0..Len(s), l \in 0..p :
                  /\ IsCeilDiv(c, Len(s), p)
                  /\ IsCeilLog2(l, p)
                  /\ ret["EREW"].steps = c + l
        /\ (Called("CRCW") /\ Called("EREW")) =>
             /\ ret["CRCW"].steps <= ret["EREW"].steps
             /\ (ret["CRCW"].steps = ret["EREW"].steps) <=> (p = 1)

Witness_C3 ==
    /\ p = 3 /\ Len(s) = 2
    /\ Called("CRCW") /\ Called("EREW")
    /\ ret["EREW"].steps = 3

(***************************************************************************)
(* C4: with a processor count p < 1 each PRAM search raises instead of     *)
(* returning; none returns a step count <= 0 for a non-empty sequence.     *)
(***************************************************************************)
Claim_C4 ==
    \A m \in PRAMModels :
        /\ (p < 1 /\ Called(m)) => ret[m].status = "raised"
        /\ (Ok(m) /\ Len(s) >= 1) => ret[m].steps > 0

(***************************************************************************)
(* C5 as stated: for a fixed sequence and target and 1 <= p1 < p2, each    *)
(* PRAM search returns for p2 a step count <= the one it returned for p1.  *)
(***************************************************************************)
SweptProcessors ==
    /\ prev.set /\ prev.target = target
    /\ 1 <= prev.p /\ prev.p < p
    /\ Len(s) >= 1

Original_C5 ==
    SweptProcessors =>
        \A m \in PRAMModels :
            Called(m) => ret[m].steps <= prev.ret[m].steps

(***************************************************************************)
(* C5 amended: for a fixed sequence and 1 <= p1 < p2, pram_crcw_search     *)
(* returns for p2 a step count <= the one for p1; pram_erew_search and     *)
(* pram_crew_search may return more for p2, by at most                     *)
(* ceil(log2(p2)) - ceil(log2(p1)).                                        *)
(***************************************************************************)
Claim_C5 ==
    SweptProcessors =>
        /\ Called("CRCW") => ret["CRCW"].steps <= prev.ret["CRCW"].steps
        /\ \A m \in {"EREW", "CREW"} :
             Called(m) =>
                 ret[m].steps <= prev.ret[m].steps
                                   + CeilLog2Of(p) - CeilLog2Of(prev.p)

Witness_C5 ==
    /\ SweptProcessors
    /\ AllCalled
    /\ prev.p = 1 /\ p = 2 /\ Len(s) = 1
    /\ ret["EREW"].steps > prev.ret["EREW"].steps

(***************************************************************************)
(* C6: pram_crcw_search called with a rule other than "priority" raises;   *)
(* it does not return a result.                                            *)
(***************************************************************************)
Claim_C6 ==
    (Called("CRCW") /\ rule # "priority") => ret["CRCW"].status = "raised"

(***************************************************************************)
(* C7: what speedups returns has exactly the four entries, each with the   *)
(* index and steps of that model on the same sequence and target;          *)
(* Sequential's speedup is 1.0; a PRAM model's speedup is                  *)
(* steps_sequential / steps_model, or +infinity when steps_model = 0.      *)
(***************************************************************************)
IsQuotient(sp, a, b) == sp.kind = "ratio" /\ sp.den # 0 /\ sp.num * b = sp.den * a

Claim_C7 ==
    out.status = "ok" =>
        /\ DOMAIN out.dict = Models
        /\ \A m \in Models :
             /\ Ok(m)
             /\ out.dict[m].index = ret[m].index
             /\ out.dict[m].steps = ret[m].steps
        /\ out.dict["Sequential"].speedup = One
        /\ \A m \in PRAMModels :
             IF ret[m].steps = 0
             THEN out.dict[m].speedup.kind = "inf"
             ELSE IsQuotient(out.dict[m].speedup, ret["Sequential"].steps, ret[m].steps)

(***************************************************************************)
(* C8: when the target symbol is absent (n >= 1, p >= 1): seq_search       *)
(* returns (-1, n); each PRAM search returns index -1 and the step count   *)
(* it returned for a present target with the same sequence and p; and      *)
(* speedups returns, each PRAM speedup being n / steps_model.              *)
(***************************************************************************)
PrevTargetPresent ==
    /\ prev.set /\ prev.p = p
    /\ \E i \in DOMAIN s : prev.target = <<s[i]>>

Claim_C8 ==
    (p >= 1 /\ Len(s) >= 1 /\ TargetAbsent) =>
        /\ Called("Sequential") => ret["Sequential"] = Returned(-1, Len(s))
        /\ \A m \in PRAMModels :
             Called(m) =>
                 /\ Ok(m) /\ ret[m].index = -1
                 /\ PrevTargetPresent => ret[m].steps = prev.ret[m].steps
        /\ out.status # "none" =>
             /\ out.status = "ok"
             /\ \A m \in PRAMModels :
                  IsQuotient(out.dict[m].speedup, Len(s), out.dict[m].steps)

Witness_C8 ==
    /\ p = 2 /\ Len(s) = 3 /\ TargetAbsent
    /\ PrevTargetPresent
    /\ AllCalled

Witness_C8_speedups ==
    /\ p = 4 /\ Len(s) = 4 /\ TargetAbsent
    /\ out.status = "ok"

(***************************************************************************)
(* C9: for n >= 1 and p >= 1, pram_erew_search and pram_crew_search return *)
(* the same index and the same steps; with p = 1 each PRAM search returns  *)
(* steps = n.                                                              *)
(***************************************************************************)
Claim_C9 ==
    (p >= 1 /\ Len(s) >= 1) =>
        /\ (Called("EREW") /\ Called("CREW")) =>
             /\ Ok("EREW") /\ Ok("CREW")
             /\ ret["EREW"].index = ret["CREW"].index
             /\ ret["EREW"].steps = ret["CREW"].steps
        /\ p = 1 =>
             \A m \in PRAMModels : Called(m) => (Ok(m) /\ ret[m].steps = Len(s))

Witness_C9 ==
    /\ p = 4 /\ Len(s) = 3
    /\ Called("EREW") /\ Called("CREW")
    /\ ret["CREW"].steps = 3

(***************************************************************************)
(* C10: the assertion of speedups never fails: for every sequence, also    *)
(* one with repeated symbols, every single-symbol target and every p >= 1  *)
(* the four functions return the same index, the first position holding    *)
(* the target or -1, and speedups never raises AssertionError.             *)
(***************************************************************************)
Claim_C10 ==
    /\ out.status = "raised" => out.exc # "AssertionError"
    /\ (Len(target) = 1 /\ p >= 1 /\ AllCalled) =>
         /\ \A m \in Models : Ok(m)
         /\ consistent(ret["Sequential"].index, ret["EREW"].index,
                       ret["CREW"].index, ret["CRCW"].index)
         /\ \A m \in Models : ret[m].index = ret["Sequential"].index
         /\ \/ IsFirstOccurrence(ret["Sequential"].index)
            \/ (ret["Sequential"].index = -1 /\ TargetAbsent)

Witness_C10 ==
    /\ Len(s) = 3 /\ p >= 1 /\ AllCalled
    /\ IsFirstOccurrence(1) /\ OccursAt(2)

====
